---- MODULE Spec2Model ----
(***************************************************************************)
(* Model of the website suggestion assistant: src/app.py (batch reasons)   *)
(* and src/streamlit-app/app.py (per-site reasons and deep links).         *)
(*                                                                         *)
(* Text is modelled character by character: a Python str is a sequence of  *)
(* one-character strings, so that lowercasing, whitespace normalisation,   *)
(* substring search and regular-expression search are computed, not        *)
(* assumed.                                                                *)
(***************************************************************************)
EXTENDS Integers, Sequences, FiniteSets, TLC

VARIABLES
    pc,        \* control location of the function call or request handler
    fn,        \* name of the function applied (function-level specifications)
    app,       \* the script run: "app" (src/app.py) or "streamlit"
    query,     \* the user's query text
    table,     \* categories.json: the category table in iteration order
    files,     \* outcome of loading the data files, and websites.json
    env,       \* OPENAI_API_KEY and whether langchain_openai was imported
    category,  \* the category argument, or the category detected
    sites,     \* the site records of the category
    site,      \* the site record a per-site function is applied to
    reply,     \* what the language-model call did: raised, or its output
    llm,       \* the client object made by ensure_llm / make_llm, or None
    llmCalls,  \* number of language-model calls made
    reasons,   \* the reason map of the request (src/app.py)
    ui,        \* the elements rendered so far, in order
    exc,       \* the exception that escaped the handler, or None
    ret        \* value returned by the function applied

vars == <<pc, fn, app, query, table, files, env, category, sites, site,
          reply, llm, llmCalls, reasons, ui, exc, ret>>

\* Python's None: a value no text (a sequence of characters) equals.
None == << "None" >>

----------------------------------------------------------------------------
(* Bounds of the model *)

MaxQueryLen == 3     \* characters of a query drawn exhaustively
MaxCats == 2         \* categories of a table
MaxSites == 2        \* site records of a category
MaxReplyLen == 3     \* characters of a per-site model reply

----------------------------------------------------------------------------
(* Characters and str methods *)

UpperLower ==
    { <<"A","a">>, <<"B","b">>, <<"C","c">>, <<"D","d">>, <<"E","e">>,
      <<"F","f">>, <<"G","g">>, <<"H","h">>, <<"I","i">>, <<"J","j">>,
      <<"K","k">>, <<"L","l">>, <<"M","m">>, <<"N","n">>, <<"O","o">>,
      <<"P","p">>, <<"Q","q">>, <<"R","r">>, <<"S","s">>, <<"T","t">>,
      <<"U","u">>, <<"V","v">>, <<"W","w">>, <<"X","x">>, <<"Y","y">>,
      <<"Z","z">> }

LowerLetters == { p[2] : p \in UpperLower }
UpperLetters == { p[1] : p \in UpperLower }
Digits == { "0", "1", "2", "3", "4", "5", "6", "7", "8", "9" }

\* \s of the re module, for the whitespace characters the model draws.
IsSpace(c) == c \in { " ", "\t", "\n" }

\* Characters outside ASCII are written by their code point. The source
\* file stores the currency sign of budget_present's pattern as the three
\* characters U+00E2 U+201A U+00B9; the rupee sign itself is U+20B9.
CurrencyLiteral == << "U+00E2", "U+201A", "U+00B9" >>
RupeeSign == "U+20B9"

\* \w of the re module: letters, digits and the underscore (U+00E2 and
\* U+00E9 are letters and U+00B9 is alphanumeric for str.isalnum).
IsWordChar(c) ==
    c \in LowerLetters \cup UpperLetters \cup Digits
           \cup { "_", "U+00E2", "U+00B9", "U+00E9" }

\* str.lower() on one character.
LowerChar(c) ==
    IF c \in UpperLetters
    THEN (CHOOSE p \in UpperLower : p[1] = c)[2]
    ELSE c

\* str.lower()
Lower(s) == [ i \in 1..Len(s) |-> LowerChar(s[i]) ]

RECURSIVE LStrip(_)
LStrip(s) ==
    IF s # <<>> /\ IsSpace(Head(s)) THEN LStrip(Tail(s)) ELSE s

RECURSIVE RStrip(_)
RStrip(s) ==
    IF s # <<>> /\ IsSpace(s[Len(s)])
    THEN RStrip(SubSeq(s, 1, Len(s) - 1))
    ELSE s

\* str.strip()
Strip(s) == RStrip(LStrip(s))

\* s[p .. p+Len(sub)-1] = sub, for a start position p in 1..Len(s)+1.
MatchAt(sub, s, p) ==
    /\ p >= 1
    /\ p + Len(sub) - 1 <= Len(s)
    /\ \A k \in 1..Len(sub) : s[p + k - 1] = sub[k]

\* Python's `sub in s`.
Contains(sub, s) == \E p \in 1..(Len(s) + 1) : MatchAt(sub, s, p)

\* str.startswith
StartsWith(s, prefix) == MatchAt(prefix, s, 1)

\* re.sub(r"\s+", " ", s): every maximal run of whitespace becomes one space.
RECURSIVE CollapseSpaces(_)
CollapseSpaces(s) ==
    IF s = <<>> THEN <<>>
    ELSE IF IsSpace(Head(s))
         THEN <<" ">> \o CollapseSpaces(LStrip(Tail(s)))
         ELSE <<Head(s)>> \o CollapseSpaces(Tail(s))

normalize_text(s) == Strip(CollapseSpaces(Lower(s)))

\* \b of the re module at the gap after the first `gap` characters of s
\* (gap in 0..Len(s)): exactly one side of the gap is a word character.
WordBoundary(s, gap) ==
    LET left  == gap >= 1 /\ IsWordChar(s[gap])
        right == gap < Len(s) /\ IsWordChar(s[gap + 1])
    IN  left # right

\* re.search(rf"\b{re.escape(kw)}\b", q): the literal kw somewhere in q with
\* a word boundary on both of its sides.
SearchWord(kw, q) ==
    \E p \in 1..(Len(q) + 1) :
        /\ MatchAt(kw, q, p)
        /\ WordBoundary(q, p - 1)
        /\ WordBoundary(q, p - 1 + Len(kw))

----------------------------------------------------------------------------
(* String literals of the source, as sequences of characters *)

\* 'electronics'
S_electronics ==
    <<"e", "l", "e", "c", "t", "r", "o", "n", "i", "c", "s">>

\* 'fashion'
S_fashion ==
    <<"f", "a", "s", "h", "i", "o", "n">>

\* 'furniture'
S_furniture ==
    <<"f", "u", "r", "n", "i", "t", "u", "r", "e">>

\* app.py:191 default strength tip
S_good_selection ==
    <<"g", "o", "o", "d", " ", "s", "e", "l", "e", "c", "t", "i", "o", "n",
      " ", "a", "n", "d", " ", "r", "e", "l", "i", "a", "b", "i", "l", "i",
      "t", "y">>

\* app.py:192
S_Great_for ==
    <<"G", "r", "e", "a", "t", " ", "f", "o", "r", " ">>

\* app.py:192
S_known_for ==
    <<";", " ", "k", "n", "o", "w", "n", " ", "f", "o", "r", " ">>

\* streamlit-app/app.py:67
S_reliable_place ==
    <<" ", "i", "s", " ", "a", " ", "r", "e", "l", "i", "a", "b", "l", "e",
      " ", "p", "l", "a", "c", "e", " ", "t", "o", " ", "b", "r", "o", "w",
      "s", "e", " ">>

\* streamlit-app/app.py:67
S_broad_selection ==
    <<" ", "w", "i", "t", "h", " ", "b", "r", "o", "a", "d", " ", "s", "e",
      "l", "e", "c", "t", "i", "o", "n", ",", " ", "t", "r", "u", "s", "t",
      "e", "d", " ", "s", "e", "l", "l", "e", "r", "s", ",", " ", "a", "n",
      "d", " ", "c", "o", "n", "v", "e", "n", "i", "e", "n", "t", " ", "d",
      "e", "l", "i", "v", "e", "r", "y", ".">>

\* streamlit-app/app.py:69
S_offers_electronics ==
    <<" ", "o", "f", "f", "e", "r", "s", " ", "a", " ", "s", "t", "r", "o",
      "n", "g", " ", "r", "a", "n", "g", "e", " ", "o", "f", " ", "e", "l",
      "e", "c", "t", "r", "o", "n", "i", "c", "s", " ", "w", "i", "t", "h",
      " ", "s", "p", "e", "c", "s", " ", "f", "i", "l", "t", "e", "r", "s",
      ",", " ", "t", "r", "u", "s", "t", "e", "d", " ", "w", "a", "r", "r",
      "a", "n", "t", "i", "e", "s", ",", " ", "a", "n", "d", " ", "q", "u",
      "i", "c", "k", " ", "d", "e", "l", "i", "v", "e", "r", "y", " ", "o",
      "p", "t", "i", "o", "n", "s", ".">>

\* streamlit-app/app.py:71
S_features_fashion ==
    <<" ", "f", "e", "a", "t", "u", "r", "e", "s", " ", "e", "x", "t", "e",
      "n", "s", "i", "v", "e", " ", "f", "a", "s", "h", "i", "o", "n", " ",
      "c", "a", "t", "a", "l", "o", "g", "s", ",", " ", "f", "r", "e", "q",
      "u", "e", "n", "t", " ", "d", "i", "s", "c", "o", "u", "n", "t", "s",
      ",", " ", "a", "n", "d", " ", "e", "a", "s", "y", " ", "r", "e", "t",
      "u", "r", "n", "s", " ", "f", "o", "r", " ", "s", "i", "z", "e", " ",
      "o", "r", " ", "s", "t", "y", "l", "e", ".">>

\* streamlit-app/app.py:73
S_lists_furniture ==
    <<" ", "l", "i", "s", "t", "s", " ", "s", "t", "u", "r", "d", "y", " ",
      "f", "u", "r", "n", "i", "t", "u", "r", "e", " ", "w", "i", "t", "h",
      " ", "s", "t", "y", "l", "e", "/", "s", "i", "z", "e", " ", "f", "i",
      "l", "t", "e", "r", "s", ",", " ", "c", "l", "e", "a", "r", " ", "s",
      "p", "e", "c", "s", ",", " ", "a", "n", "d", " ", "d", "e", "l", "i",
      "v", "e", "r", "y", "/", "a", "s", "s", "e", "m", "b", "l", "y", " ",
      "s", "u", "p", "p", "o", "r", "t", ".">>

\* streamlit-app/app.py:75
S_budget_hint ==
    <<" ", "U", "s", "e", " ", "p", "r", "i", "c", "e", " ", "f", "i", "l",
      "t", "e", "r", "s", " ", "a", "n", "d", " ", "d", "e", "a", "l", "s",
      " ", "t", "o", " ", "s", "t", "a", "y", " ", "w", "i", "t", "h", "i",
      "n", " ", "y", "o", "u", "r", " ", "b", "u", "d", "g", "e", "t", ".">>

\* streamlit-app/app.py:119
S_search ==
    <<"s", "e", "a", "r", "c", "h">>

\* streamlit-app/app.py:132
S_amazon_fashion ==
    <<"a", "m", "a", "z", "o", "n", " ", "f", "a", "s", "h", "i", "o", "n">>

\* host test "amazon.in"
H_amazon ==
    <<"a", "m", "a", "z", "o", "n", ".", "i", "n">>

\* host test "flipkart.com"
H_flipkart ==
    <<"f", "l", "i", "p", "k", "a", "r", "t", ".", "c", "o", "m">>

\* host test "croma.com"
H_croma ==
    <<"c", "r", "o", "m", "a", ".", "c", "o", "m">>

\* host test "reliancedigital.in"
H_reliancedigital ==
    <<"r", "e", "l", "i", "a", "n", "c", "e", "d", "i", "g", "i", "t", "a",
      "l", ".", "i", "n">>

\* host test "myntra.com"
H_myntra ==
    <<"m", "y", "n", "t", "r", "a", ".", "c", "o", "m">>

\* host test "ajio.com"
H_ajio ==
    <<"a", "j", "i", "o", ".", "c", "o", "m">>

\* host test "pepperfry.com"
H_pepperfry ==
    <<"p", "e", "p", "p", "e", "r", "f", "r", "y", ".", "c", "o", "m">>

\* host test "ikea.com"
H_ikea ==
    <<"i", "k", "e", "a", ".", "c", "o", "m">>

\* host test "urbanladder.com"
H_urbanladder ==
    <<"u", "r", "b", "a", "n", "l", "a", "d", "d", "e", "r", ".", "c", "o",
      "m">>

\* URL piece "&i=apparel"
U_amazon_apparel_suffix ==
    <<"&", "i", "=", "a", "p", "p", "a", "r", "e", "l">>

\* URL piece "https://www.amazon.in/s?k="
U_amazon ==
    <<"h", "t", "t", "p", "s", ":", "/", "/", "w", "w", "w", ".", "a", "m",
      "a", "z", "o", "n", ".", "i", "n", "/", "s", "?", "k", "=">>

\* URL piece "https://www.flipkart.com/search?q="
U_flipkart ==
    <<"h", "t", "t", "p", "s", ":", "/", "/", "w", "w", "w", ".", "f", "l",
      "i", "p", "k", "a", "r", "t", ".", "c", "o", "m", "/", "s", "e", "a",
      "r", "c", "h", "?", "q", "=">>

\* URL piece "https://www.croma.com/searchB?q="
U_croma ==
    <<"h", "t", "t", "p", "s", ":", "/", "/", "w", "w", "w", ".", "c", "r",
      "o", "m", "a", ".", "c", "o", "m", "/", "s", "e", "a", "r", "c", "h",
      "B", "?", "q", "=">>

\* URL piece "https://www.reliancedigital.in/search?q="
U_reliancedigital ==
    <<"h", "t", "t", "p", "s", ":", "/", "/", "w", "w", "w", ".", "r", "e",
      "l", "i", "a", "n", "c", "e", "d", "i", "g", "i", "t", "a", "l", ".",
      "i", "n", "/", "s", "e", "a", "r", "c", "h", "?", "q", "=">>

\* URL piece "https://www.myntra.com/"
U_myntra ==
    <<"h", "t", "t", "p", "s", ":", "/", "/", "w", "w", "w", ".", "m", "y",
      "n", "t", "r", "a", ".", "c", "o", "m", "/">>

\* URL piece "?rawQuery="
U_myntra_rawQuery ==
    <<"?", "r", "a", "w", "Q", "u", "e", "r", "y", "=">>

\* URL piece "&p=1"
U_myntra_p1 ==
    <<"&", "p", "=", "1">>

\* URL piece "https://www.ajio.com/search/?text="
U_ajio ==
    <<"h", "t", "t", "p", "s", ":", "/", "/", "w", "w", "w", ".", "a", "j",
      "i", "o", ".", "c", "o", "m", "/", "s", "e", "a", "r", "c", "h", "/",
      "?", "t", "e", "x", "t", "=">>

\* URL piece "https://www.pepperfry.com/site_product/search?q="
U_pepperfry ==
    <<"h", "t", "t", "p", "s", ":", "/", "/", "w", "w", "w", ".", "p", "e",
      "p", "p", "e", "r", "f", "r", "y", ".", "c", "o", "m", "/", "s", "i",
      "t", "e", "_", "p", "r", "o", "d", "u", "c", "t", "/", "s", "e", "a",
      "r", "c", "h", "?", "q", "=">>

\* URL piece "https://www.ikea.com/in/en/search/?q="
U_ikea ==
    <<"h", "t", "t", "p", "s", ":", "/", "/", "w", "w", "w", ".", "i", "k",
      "e", "a", ".", "c", "o", "m", "/", "i", "n", "/", "e", "n", "/", "s",
      "e", "a", "r", "c", "h", "/", "?", "q", "=">>

\* URL piece "https://www.urbanladder.com/products/search?keywords="
U_urbanladder ==
    <<"h", "t", "t", "p", "s", ":", "/", "/", "w", "w", "w", ".", "u", "r",
      "b", "a", "n", "l", "a", "d", "d", "e", "r", ".", "c", "o", "m", "/",
      "p", "r", "o", "d", "u", "c", "t", "s", "/", "s", "e", "a", "r", "c",
      "h", "?", "k", "e", "y", "w", "o", "r", "d", "s", "=">>

----------------------------------------------------------------------------
(* Category detection *)

\* The key of the object form of a category's entry.
KeywordsKey == <<"k", "e", "y", "w", "o", "r", "d", "s">>

\* What `for kw in keywords` iterates over in detect_category: the items of
\* a list, and the keys of a dict (an entry in the object form).
IterKeywords(cfg) ==
    IF cfg.form = "list" THEN cfg.keywords ELSE << KeywordsKey >>

\* Score of one category in detect_category: substring matching.
\* sum(1 for kw in keywords if kw.lower() in text)
SubstringScore(text, keywords) ==
    Cardinality({ i \in 1..Len(keywords) : Contains(Lower(keywords[i]), text) })

\* Score of one category in extract_category: word-boundary matching.
\* sum(1 for kw in kws if re.search(rf"\b{re.escape(kw.lower())}\b", q))
WordScore(q, kws) ==
    Cardinality({ i \in 1..Len(kws) : SearchWord(Lower(kws[i]), q) })

\* Exceptions, as the value a raising call yields.
AttributeError == << "AttributeError" >>

\* The loop of detect_category over categories_map.items().
RECURSIVE DetectLoop(_, _, _, _)
DetectLoop(text, items, best_cat, best_score) ==
    IF items = <<>>
    THEN IF best_score > 0 THEN best_cat ELSE None
    ELSE LET score == SubstringScore(text, IterKeywords(Head(items)))
         IN  IF score > best_score
             THEN DetectLoop(text, Tail(items), Head(items).name, score)
             ELSE DetectLoop(text, Tail(items), best_cat, best_score)

\* detect_category with `score >= best_score`: on a tie the last category wins.
RECURSIVE DetectLoopLastWins(_, _, _, _)
DetectLoopLastWins(text, items, best_cat, best_score) ==
    IF items = <<>>
    THEN IF best_score > 0 THEN best_cat ELSE None
    ELSE LET score == SubstringScore(text, IterKeywords(Head(items)))
         IN  IF score >= best_score
             THEN DetectLoopLastWins(text, Tail(items), Head(items).name, score)
             ELSE DetectLoopLastWins(text, Tail(items), best_cat, best_score)

detect_category_LastWins(q, categories_map) ==
    DetectLoopLastWins(Lower(q), categories_map, None, 0)

detect_category(q, categories_map) ==
    DetectLoop(Lower(q), categories_map, None, 0)

\* The loop of extract_category over categories.items().
RECURSIVE ExtractLoop(_, _, _, _)
ExtractLoop(q, items, best_cat, best_score) ==
    IF items = <<>>
    THEN IF best_score > 0 THEN best_cat ELSE None
    ELSE IF Head(items).form # "dict"
    THEN AttributeError    \* cfg.get on a list
    ELSE LET score == WordScore(q, Head(items).keywords)
         IN  IF score > best_score
             THEN ExtractLoop(q, Tail(items), Head(items).name, score)
             ELSE ExtractLoop(q, Tail(items), best_cat, best_score)

\* extract_category searching the raw query instead of the normalized one.
extract_category_RawQuery(q, categories) ==
    ExtractLoop(q, categories, None, 0)

extract_category(q, categories) ==
    ExtractLoop(normalize_text(q), categories, None, 0)

----------------------------------------------------------------------------
(* Reason generation *)

\* ", ".join(xs)
RECURSIVE JoinComma(_)
JoinComma(xs) ==
    IF xs = <<>> THEN <<>>
    ELSE IF Len(xs) = 1 THEN Head(xs)
    ELSE Head(xs) \o <<",", " ">> \o JoinComma(Tail(xs))

\* xs[:n]
Take(xs, n) == SubSeq(xs, 1, IF Len(xs) < n THEN Len(xs) ELSE n)

\* d[k] = v on a dict, a function from keys to values.
DictSet(d, k, v) ==
    [ x \in (DOMAIN d) \cup {k} |-> IF x = k THEN v ELSE d[x] ]

EmptyDict == << >>

\* The markers of budget_present's pattern that a digit may follow:
\* (<currency literal>|rs\.?|rupees?) and under.
BudgetMarkers ==
    { CurrencyLiteral,
      <<"r", "s">>, <<"r", "s", ".">>,
      <<"r", "u", "p", "e", "e">>, <<"r", "u", "p", "e", "e", "s">>,
      <<"u", "n", "d", "e", "r">> }

\* \s*\d at position p of q: optional whitespace, then a digit.
DigitAfterSpaces(q, p) ==
    LET rest == LStrip(SubSeq(q, p, Len(q)))
    IN  rest # <<>> /\ Head(rest) \in Digits

\* re.search of the budget pattern in q.
SearchBudget(q) ==
    \E m \in BudgetMarkers :
        \E p \in 1..(Len(q) + 1) :
            MatchAt(m, q, p) /\ DigitAfterSpaces(q, p + Len(m))

\* budget_present without the `under` alternative of the pattern.
budget_present_NoUnder(q) ==
    \E m \in BudgetMarkers \ { <<"u", "n", "d", "e", "r">> } :
        \E p \in 1..(Len(normalize_text(q)) + 1) :
            /\ MatchAt(m, normalize_text(q), p)
            /\ DigitAfterSpaces(normalize_text(q), p + Len(m))

budget_present(q) == SearchBudget(normalize_text(q))

deterministic_reason(site_name, cat, q) ==
    LET has_budget == budget_present(q)
        base == IF cat = S_electronics THEN site_name \o S_offers_electronics
                ELSE IF cat = S_fashion THEN site_name \o S_features_fashion
                ELSE IF cat = S_furniture THEN site_name \o S_lists_furniture
                ELSE site_name \o S_reliable_place \o cat \o S_broad_selection
    IN  IF has_budget THEN base \o S_budget_hint ELSE base

\* The reason build_fallback_reasons gives one site record.
FallbackReason(w, cat) ==
    LET strengths == w.strengths    \* w.get("strengths", [])
        strength_tip == IF strengths # <<>>
                        THEN JoinComma(Take(strengths, 2))
                        ELSE S_good_selection
    IN  S_Great_for \o cat \o S_known_for \o strength_tip \o <<".">>

RECURSIVE FallbackLoop(_, _, _)
FallbackLoop(websites, cat, acc) ==
    IF websites = <<>> THEN acc
    ELSE FallbackLoop(Tail(websites), cat,
                      DictSet(acc, Head(websites).name,
                              FallbackReason(Head(websites), cat)))

build_fallback_reasons(websites, cat, user_query) ==
    FallbackLoop(websites, cat, EmptyDict)

\* str(v) of a value of the parsed JSON object.
PyStr(v) ==
    IF v.type = "str" THEN v.s
    ELSE <<"N", "o", "n", "e">>    \* str(None) for a JSON null

\* generate_reasons_for_websites letting the fault of chain.invoke through
\* as an empty map instead of falling back.
generate_reasons_for_websites_NoFallback(r, user_query, cat, websites) ==
    IF r.kind = "raise" THEN EmptyDict
    ELSE IF r.json.type # "dict"
    THEN build_fallback_reasons(websites, cat, user_query)
    ELSE LET allowed == { websites[i].name : i \in 1..Len(websites) }
         IN  [ k \in (DOMAIN r.json.items) \cap allowed |-> PyStr(r.json.items[k]) ]

\* r is what chain.invoke did: raised, or returned text whose json.loads
\* outcome is r.json (a parse error, a non-object value, or an object).
generate_reasons_for_websites(r, user_query, cat, websites) ==
    IF r.kind = "raise"
    THEN build_fallback_reasons(websites, cat, user_query)
    ELSE IF r.json.type = "error"      \* json.loads raises
    THEN build_fallback_reasons(websites, cat, user_query)
    ELSE IF r.json.type # "dict"       \* ValueError raised at line 170
    THEN build_fallback_reasons(websites, cat, user_query)
    ELSE LET allowed == { websites[i].name : i \in 1..Len(websites) }
             filtered == [ k \in (DOMAIN r.json.items) \cap allowed |->
                               PyStr(r.json.items[k]) ]
         IN  filtered

\* re.split(r"[\.!?]", text)[0]
RECURSIVE FirstSentence(_)
FirstSentence(text) ==
    IF text = <<>> \/ Head(text) \in { ".", "!", "?" } THEN <<>>
    ELSE <<Head(text)>> \o FirstSentence(Tail(text))

\* r is what llm.invoke did: raised, or returned a message with content.
reason_with_llm(r, q, cat, site_name, site_url) ==
    IF r.kind = "raise"
    THEN deterministic_reason(site_name, cat, q)
    ELSE LET text == Strip(IF r.content = None THEN <<>> ELSE r.content)
         IN  IF text = <<>>             \* ValueError("Empty LLM response")
             THEN deterministic_reason(site_name, cat, q)
             ELSE Strip(FirstSentence(text)) \o <<".">>

----------------------------------------------------------------------------
(* Slugs and deep links *)

IsSlugAlnum(c) == c \in LowerLetters \cup Digits

\* The rest of s after its leading characters that are not in a-z0-9.
RECURSIVE DropNonAlnum(_)
DropNonAlnum(s) ==
    IF s # <<>> /\ ~IsSlugAlnum(Head(s)) THEN DropNonAlnum(Tail(s)) ELSE s

\* re.sub(r"[^a-z0-9]+", "-", s)
RECURSIVE SubNonAlnum(_)
SubNonAlnum(s) ==
    IF s = <<>> THEN <<>>
    ELSE IF IsSlugAlnum(Head(s))
         THEN <<Head(s)>> \o SubNonAlnum(Tail(s))
         ELSE <<"-">> \o SubNonAlnum(DropNonAlnum(Tail(s)))

RECURSIVE DropHyphens(_)
DropHyphens(s) ==
    IF s # <<>> /\ Head(s) = "-" THEN DropHyphens(Tail(s)) ELSE s

\* re.sub(r"-{2,}", "-", s)
RECURSIVE SubHyphenRuns(_)
SubHyphenRuns(s) ==
    IF s = <<>> THEN <<>>
    ELSE IF Head(s) = "-"
         THEN <<"-">> \o SubHyphenRuns(DropHyphens(Tail(s)))
         ELSE <<Head(s)>> \o SubHyphenRuns(Tail(s))

RECURSIVE RStripHyphens(_)
RStripHyphens(s) ==
    IF s # <<>> /\ s[Len(s)] = "-"
    THEN RStripHyphens(SubSeq(s, 1, Len(s) - 1))
    ELSE s

\* s.strip("-")
StripHyphens(s) == RStripHyphens(DropHyphens(s))

\* to_slug without the .strip("-") of line 118.
to_slug_NoStrip(s) ==
    LET s3 == SubHyphenRuns(SubNonAlnum(normalize_text(s)))
    IN  IF s3 # <<>> THEN s3 ELSE S_search

to_slug(s) ==
    LET s1 == normalize_text(s)
        s2 == SubNonAlnum(s1)
        s3 == StripHyphens(SubHyphenRuns(s2))
    IN  IF s3 # <<>> THEN s3 ELSE S_search

\* urllib.parse.quote leaves letters, digits, "_.-~" and "/" as they are.
QuoteSafe(c) ==
    c \in LowerLetters \cup UpperLetters \cup Digits \cup { "_", ".", "-", "~", "/" }

\* The percent-encoding of the other characters the model draws.
PercentCode(c) ==
    CASE c = " "  -> <<"%", "2", "0">>
      [] c = "\t" -> <<"%", "0", "9">>
      [] c = "+"  -> <<"%", "2", "B">>
      [] c = "&"  -> <<"%", "2", "6">>
      [] c = "?"  -> <<"%", "3", "F">>
      [] c = "#"  -> <<"%", "2", "3">>
      [] c = "="  -> <<"%", "3", "D">>
      [] c = ":"  -> <<"%", "3", "A">>
      [] c = "%"  -> <<"%", "2", "5">>
      [] c = "U+00E9" -> <<"%", "C", "3", "%", "A", "9">>

\* urllib.parse.quote(s)
RECURSIVE quote(_)
quote(s) ==
    IF s = <<>> THEN <<>>
    ELSE (IF QuoteSafe(Head(s)) THEN <<Head(s)>> ELSE PercentCode(Head(s)))
         \o quote(Tail(s))

IsSchemeChar(c) ==
    c \in LowerLetters \cup UpperLetters \cup Digits \cup { "+", "-", "." }

\* Length of the "scheme:" prefix urlsplit takes off the URL, 0 when the
\* text before the first colon is not a scheme.
SchemePrefixLen(url) ==
    IF \E i \in 1..Len(url) : url[i] = ":"
    THEN LET i == CHOOSE k \in 1..Len(url) :
                      url[k] = ":" /\ \A j \in 1..(k - 1) : url[j] # ":"
         IN  IF /\ i > 1
                /\ url[1] \in LowerLetters \cup UpperLetters
                /\ \A j \in 1..(i - 1) : IsSchemeChar(url[j])
             THEN i ELSE 0
    ELSE 0

\* The text before the first of "/", "?" and "#".
RECURSIVE UntilDelimiter(_)
UntilDelimiter(s) ==
    IF s = <<>> \/ Head(s) \in { "/", "?", "#" } THEN <<>>
    ELSE <<Head(s)>> \o UntilDelimiter(Tail(s))

\* urlparse(url).netloc: what follows "//" after the scheme, up to the
\* path, query or fragment; empty when the URL has no "//" there.
netloc(url) ==
    LET rest == SubSeq(url, SchemePrefixLen(url) + 1, Len(url))
    IN  IF StartsWith(rest, <<"/", "/">>)
        THEN UntilDelimiter(SubSeq(rest, 3, Len(rest)))
        ELSE <<>>

build_deep_link(site_name, base_url, q, cat) ==
    LET host   == Lower(netloc(base_url))
        q_norm == normalize_text(q)
        q_enc  == quote(q_norm)
    IN  IF Contains(H_amazon, host)
        THEN IF StartsWith(Lower(site_name), S_amazon_fashion) \/ cat = S_fashion
             THEN U_amazon \o q_enc \o U_amazon_apparel_suffix
             ELSE U_amazon \o q_enc
        ELSE IF Contains(H_flipkart, host) THEN U_flipkart \o q_enc
        ELSE IF Contains(H_croma, host) THEN U_croma \o q_enc
        ELSE IF Contains(H_reliancedigital, host) THEN U_reliancedigital \o q_enc
        ELSE IF Contains(H_myntra, host)
        THEN U_myntra \o to_slug(q_norm) \o U_myntra_rawQuery \o q_enc \o U_myntra_p1
        ELSE IF Contains(H_ajio, host) THEN U_ajio \o q_enc
        ELSE IF Contains(H_pepperfry, host) THEN U_pepperfry \o q_enc
        ELSE IF Contains(H_ikea, host) THEN U_ikea \o q_enc
        ELSE IF Contains(H_urbanladder, host) THEN U_urbanladder \o q_enc
        ELSE base_url

----------------------------------------------------------------------------
(* Pieces of the request handlers *)

\* The client object ensure_llm / make_llm return when all goes well.
ChatOpenAI == << "ChatOpenAI" >>

\* os.getenv("OPENAI_API_KEY", "")
GetenvOrEmpty(e) ==
    IF e.OPENAI_API_KEY = None THEN << >> ELSE e.OPENAI_API_KEY

\* ensure_llm handing out a client whatever the key is.
ensure_llm_IgnoresKey(e, constructed) ==
    IF ~e.lc_available THEN None
    ELSE IF constructed THEN ChatOpenAI ELSE None

\* ensure_llm of src/app.py; `constructed` tells whether the ChatOpenAI
\* constructor returned (TRUE) or raised (FALSE).
ensure_llm(e, constructed) ==
    LET api_key == Strip(GetenvOrEmpty(e))
    IN  IF api_key = << >> THEN None
        ELSE IF ~e.lc_available THEN None
        ELSE IF constructed THEN ChatOpenAI ELSE None

\* make_llm of src/streamlit-app/app.py.
make_llm(e, constructed) ==
    LET api_key == e.OPENAI_API_KEY    \* os.environ.get
    IN  IF ~e.lc_available \/ api_key = None \/ api_key = << >> THEN None
        ELSE IF constructed THEN ChatOpenAI ELSE None

\* websites_map.get(category, [])
SitesOf(websites_map, cat) ==
    IF cat \in DOMAIN websites_map THEN websites_map[cat] ELSE << >>

\* reasons.get(name, "").strip()
ReasonShown(rs, name) ==
    Strip(IF name \in DOMAIN rs THEN rs[name] ELSE << >>)

\* The markdown lines render_links_with_reasons writes, one per site.
RenderedLinks(websites, rs) ==
    [ i \in 1..Len(websites) |->
        [ kind |-> "entry", name |-> websites[i].name, url |-> websites[i].url,
          reason |-> ReasonShown(rs, websites[i].name) ] ]

Message(kind, msg) == [ kind |-> kind, msg |-> msg ]

----------------------------------------------------------------------------
(* Inputs of the detection specification *)

\* Characters queries are drawn from: a lowercase and an uppercase letter,
\* two kinds of whitespace and a non-word character.
QueryAlphabet == { "a", "B", " ", "\t", "+" }

SeqsUpTo(S, n) == UNION { [ 1..k -> S ] : k \in 0..n }

Queries == SeqsUpTo(QueryAlphabet, MaxQueryLen)

\* Keyword lists of one category: none; one keyword; an upper-case
\* keyword and one ending in a non-word character; a keyword with inner
\* whitespace beside a repeated keyword.
KeywordLists ==
    { << >>,
      << <<"a">> >>,
      << <<"B">>, <<"a", "+">> >>,
      << <<"a", " ", "b">>, <<"a">>, <<"a">> >> }

\* Category names, in the order they are inserted in the table.
CategoryNames == << S_electronics, S_fashion, S_furniture, <<"b", "o", "o", "k", "s">> >>

\* The two schema variants of categories.json: every entry a list of
\* keywords ("list"), or every entry an object with a keywords field
\* ("dict"); the keyword lists are drawn from `lists`.
TablesOf(form, lists) ==
    UNION { { [ i \in 1..n |-> [ name |-> CategoryNames[i], form |-> form,
                                 keywords |-> kl[i] ] ]
              : kl \in [ 1..n -> lists ] }
            : n \in 0..MaxCats }

Tables == TablesOf("list", KeywordLists) \cup TablesOf("dict", KeywordLists)

IsFlat(t) == \A i \in 1..Len(t) : t[i].form = "list"
IsObject(t) == \A i \in 1..Len(t) : t[i].form = "dict"

----------------------------------------------------------------------------
(* Inputs: site records, model replies, queries with budget tokens, URLs *)

\* "Amazon India"
N_Amazon_India ==
    <<"A", "m", "a", "z", "o", "n", " ", "I", "n", "d", "i", "a">>

\* "Flipkart"
N_Flipkart ==
    <<"F", "l", "i", "p", "k", "a", "r", "t">>

\* "Myntra"
N_Myntra ==
    <<"M", "y", "n", "t", "r", "a">>

\* "Amazon Fashion"
N_Amazon_Fashion ==
    <<"A", "m", "a", "z", "o", "n", " ", "F", "a", "s", "h", "i", "o", "n">>

\* "Shop"
N_Shop ==
    <<"S", "h", "o", "p">>

\* "Bogus"
N_Bogus ==
    <<"B", "o", "g", "u", "s">>

\* "https://www.amazon.in"
B_amazon ==
    <<"h", "t", "t", "p", "s", ":", "/", "/", "w", "w", "w", ".", "a", "m",
      "a", "z", "o", "n", ".", "i", "n">>

\* "https://www.flipkart.com"
B_flipkart ==
    <<"h", "t", "t", "p", "s", ":", "/", "/", "w", "w", "w", ".", "f", "l",
      "i", "p", "k", "a", "r", "t", ".", "c", "o", "m">>

\* "https://www.croma.com"
B_croma ==
    <<"h", "t", "t", "p", "s", ":", "/", "/", "w", "w", "w", ".", "c", "r",
      "o", "m", "a", ".", "c", "o", "m">>

\* "https://www.reliancedigital.in"
B_reliancedigital ==
    <<"h", "t", "t", "p", "s", ":", "/", "/", "w", "w", "w", ".", "r", "e",
      "l", "i", "a", "n", "c", "e", "d", "i", "g", "i", "t", "a", "l", ".",
      "i", "n">>

\* "https://www.myntra.com"
B_myntra ==
    <<"h", "t", "t", "p", "s", ":", "/", "/", "w", "w", "w", ".", "m", "y",
      "n", "t", "r", "a", ".", "c", "o", "m">>

\* "https://www.ajio.com"
B_ajio ==
    <<"h", "t", "t", "p", "s", ":", "/", "/", "w", "w", "w", ".", "a", "j",
      "i", "o", ".", "c", "o", "m">>

\* "https://www.pepperfry.com"
B_pepperfry ==
    <<"h", "t", "t", "p", "s", ":", "/", "/", "w", "w", "w", ".", "p", "e",
      "p", "p", "e", "r", "f", "r", "y", ".", "c", "o", "m">>

\* "https://www.ikea.com/in/en"
B_ikea ==
    <<"h", "t", "t", "p", "s", ":", "/", "/", "w", "w", "w", ".", "i", "k",
      "e", "a", ".", "c", "o", "m", "/", "i", "n", "/", "e", "n">>

\* "https://www.urbanladder.com"
B_urbanladder ==
    <<"h", "t", "t", "p", "s", ":", "/", "/", "w", "w", "w", ".", "u", "r",
      "b", "a", "n", "l", "a", "d", "d", "e", "r", ".", "c", "o", "m">>

\* "HTTPS://WWW.MYNTRA.COM/shop"
B_upper ==
    <<"H", "T", "T", "P", "S", ":", "/", "/", "W", "W", "W", ".", "M", "Y",
      "N", "T", "R", "A", ".", "C", "O", "M", "/", "s", "h", "o", "p">>

\* "https://example.org/shop?ref=amazon.in"
B_example ==
    <<"h", "t", "t", "p", "s", ":", "/", "/", "e", "x", "a", "m", "p", "l",
      "e", ".", "o", "r", "g", "/", "s", "h", "o", "p", "?", "r", "e", "f",
      "=", "a", "m", "a", "z", "o", "n", ".", "i", "n">>

\* "www.amazon.in"
B_noscheme ==
    <<"w", "w", "w", ".", "a", "m", "a", "z", "o", "n", ".", "i", "n">>

\* "https://notamazon.in.example.org/deals"
B_lookalike ==
    <<"h", "t", "t", "p", "s", ":", "/", "/", "n", "o", "t", "a", "m", "a",
      "z", "o", "n", ".", "i", "n", ".", "e", "x", "a", "m", "p", "l", "e",
      ".", "o", "r", "g", "/", "d", "e", "a", "l", "s">>

\* "#"
B_hash ==
    <<"#">>

BaseUrls ==
    { B_amazon, B_flipkart, B_croma, B_reliancedigital,
      B_myntra, B_ajio, B_pepperfry, B_ikea,
      B_urbanladder, B_upper, B_example, B_noscheme,
      B_lookalike, B_hash }

\* Site records of websites.json; strengths is empty when the field is
\* absent (w.get("strengths", [])).
SitePool ==
    { [ name |-> N_Amazon_India, url |-> B_amazon,
        strengths |-> << <<"f", "a", "s", "t">>, <<"w", "i", "d", "e">>,
                         <<"c", "h", "e", "a", "p">> >> ],
      [ name |-> N_Flipkart, url |-> B_flipkart,
        strengths |-> << <<"d", "e", "a", "l", "s">> >> ],
      [ name |-> N_Myntra, url |-> B_myntra, strengths |-> << >> ] }

\* Lists of site records with distinct names (the site table's invariant).
SiteLists ==
    { l \in SeqsUpTo(SitePool, MaxSites) :
        \A i, j \in 1..Len(l) : i # j => l[i].name # l[j].name }

SiteNames(l) == { l[i].name : i \in 1..Len(l) }

\* Values of the JSON object a batch reply may hold: an empty string, a
\* sentence, and null.
JsonValues ==
    { [ type |-> "str", s |-> << >> ],
      [ type |-> "str", s |-> <<"F", "a", "s", "t", ".">> ],
      [ type |-> "null" ] }

ReplyKeys == { N_Amazon_India, N_Flipkart, N_Bogus }

\* What json.loads makes of the batch reply's text: an error, a value that
\* is not an object, or an object.
JsonDocs ==
    { [ type |-> "error" ], [ type |-> "list" ], [ type |-> "str" ] }
    \cup { [ type |-> "dict", items |-> f ] :
             f \in UNION { [ K -> JsonValues ] : K \in SUBSET ReplyKeys } }

\* What chain.invoke does on one call.
BatchReplies ==
    { [ kind |-> "raise" ] } \cup { [ kind |-> "text", json |-> j ] : j \in JsonDocs }

ReplyAlphabet == { "g", " ", ".", "!" }

\* What llm.invoke does on one call.
SiteReplies ==
    { [ kind |-> "raise" ] }
    \cup { [ kind |-> "message", content |-> c ] :
             c \in { None } \cup SeqsUpTo(ReplyAlphabet, MaxReplyLen) }

\* Queries of the reason specification: without and with a budget.
Q_tv == <<"t", "v">>
Q_tv_under_5 == <<"t", "v", " ", "u", "n", "d", "e", "r", " ", "5">>
ReasonQueries == { Q_tv, Q_tv_under_5 }

ReasonCategories == { S_electronics, CategoryNames[4] }

\* Queries of the fallback specification: a prefix, a marker or a near
\* miss of one, a gap, and a tail that may start with a digit.
BudgetPrefixes == { << >>, <<"t", "h">> }
BudgetWords ==
    { << >>, CurrencyLiteral, << RupeeSign >>,
      <<"r", "s">>, <<"R", "s", ".">>, <<"r", "u", "p", "e", "e">>,
      <<"r", "u", "p", "e", "e", "s">>, <<"u", "n", "d", "e", "r">>,
      <<"U", "N", "D", "E", "R">>, <<"n", "d", "e", "r">> }
BudgetGaps == { << >>, <<" ">>, <<" ", "\t">>, <<"x">> }
BudgetTails == { << >>, <<"5">>, <<"5", ",", "0">>, <<",", "5">> }

BudgetQueries ==
    { p \o w \o g \o t :
        p \in BudgetPrefixes, w \in BudgetWords, g \in BudgetGaps, t \in BudgetTails }

FallbackCategories == { S_electronics, S_fashion, S_furniture, CategoryNames[4] }

\* Queries of the link specification.
\* U+00E9 is a lowercase letter outside a-z.
SlugAlphabet == { "a", "B", "5", "-", " ", "_", "U+00E9" }
SlugQueries == SeqsUpTo(SlugAlphabet, MaxQueryLen)

LinkSites ==
    { [ name |-> n, url |-> u, strengths |-> << >> ] :
        n \in { N_Amazon_Fashion, N_Shop }, u \in BaseUrls }

LinkCategories == { S_electronics, S_fashion }

----------------------------------------------------------------------------
(* Specification of the detectors as functions *)

\* The variables of the request handlers, and the arguments of the reason
\* and link functions.
requestVars == <<app, files, env, llm, llmCalls, reasons, ui, exc>>
argVars == <<category, sites, site, reply>>

InitDetect ==
    /\ pc = "call"
    /\ fn = "-"
    /\ query \in Queries
    /\ table \in Tables
    /\ ret = None
    /\ app = None /\ files = None /\ env = None /\ category = None
    /\ sites = None /\ site = None /\ reply = None /\ llm = None
    /\ llmCalls = 0 /\ reasons = None /\ ui = << >> /\ exc = None

DetectCategory ==
    /\ pc = "call"
    /\ pc' = "returned"
    /\ fn' = "detect_category"
    /\ ret' = detect_category(query, table)
    /\ UNCHANGED <<query, table, requestVars, argVars>>

ExtractCategory ==
    /\ pc = "call"
    /\ pc' = "returned"
    /\ fn' = "extract_category"
    /\ ret' = extract_category(query, table)
    /\ UNCHANGED <<query, table, requestVars, argVars>>

NextDetect == DetectCategory \/ ExtractCategory

SpecDetect == InitDetect /\ [][NextDetect]_vars

----------------------------------------------------------------------------
(* Specification of the deterministic fallbacks as functions *)

InitFallback ==
    /\ pc = "call"
    /\ fn = "-"
    /\ query \in BudgetQueries
    /\ category \in FallbackCategories
    /\ sites \in SiteLists
    /\ table = None /\ site = None /\ reply = None /\ ret = None
    /\ app = None /\ files = None /\ env = None /\ llm = None
    /\ llmCalls = 0 /\ reasons = None /\ ui = << >> /\ exc = None

BuildFallbackReasons ==
    /\ pc = "call"
    /\ pc' = "returned"
    /\ fn' = "build_fallback_reasons"
    /\ ret' = build_fallback_reasons(sites, category, query)
    /\ UNCHANGED <<query, table, requestVars, argVars>>

DeterministicReason ==
    /\ pc = "call"
    /\ \E i \in 1..Len(sites) :
        /\ site' = sites[i]
        /\ ret' = deterministic_reason(sites[i].name, category, query)
    /\ pc' = "returned"
    /\ fn' = "deterministic_reason"
    /\ UNCHANGED <<query, table, requestVars, category, sites, reply>>

NextFallback == BuildFallbackReasons \/ DeterministicReason

SpecFallback == InitFallback /\ [][NextFallback]_vars

----------------------------------------------------------------------------
(* Specification of the model-backed reason functions *)

InitReasons ==
    /\ pc = "call"
    /\ fn = "-"
    /\ query \in ReasonQueries
    /\ category \in ReasonCategories
    /\ sites \in SiteLists
    /\ table = None /\ site = None /\ reply = None /\ ret = None
    /\ app = None /\ files = None /\ env = None /\ llm = None
    /\ llmCalls = 0 /\ reasons = None /\ ui = << >> /\ exc = None

GenerateReasonsForWebsites ==
    /\ pc = "call"
    /\ \E r \in BatchReplies :
        /\ reply' = r
        /\ ret' = generate_reasons_for_websites(r, query, category, sites)
    /\ pc' = "returned"
    /\ fn' = "generate_reasons_for_websites"
    /\ UNCHANGED <<query, table, requestVars, category, sites, site>>

ReasonWithLlm ==
    /\ pc = "call"
    /\ \E i \in 1..Len(sites) : \E r \in SiteReplies :
        /\ site' = sites[i]
        /\ reply' = r
        /\ ret' = reason_with_llm(r, query, category, sites[i].name, sites[i].url)
    /\ pc' = "returned"
    /\ fn' = "reason_with_llm"
    /\ UNCHANGED <<query, table, requestVars, category, sites>>

NextReasons == GenerateReasonsForWebsites \/ ReasonWithLlm

SpecReasons == InitReasons /\ [][NextReasons]_vars

----------------------------------------------------------------------------
(* Specification of the slug and deep-link functions *)

InitLink ==
    /\ pc = "call"
    /\ fn = "-"
    /\ query \in SlugQueries
    /\ category \in LinkCategories
    /\ site \in LinkSites
    /\ table = None /\ sites = None /\ reply = None /\ ret = None
    /\ app = None /\ files = None /\ env = None /\ llm = None
    /\ llmCalls = 0 /\ reasons = None /\ ui = << >> /\ exc = None

ToSlug ==
    /\ pc = "call"
    /\ pc' = "returned"
    /\ fn' = "to_slug"
    /\ ret' = to_slug(query)
    /\ UNCHANGED <<query, table, requestVars, argVars>>

BuildDeepLink ==
    /\ pc = "call"
    /\ pc' = "returned"
    /\ fn' = "build_deep_link"
    /\ ret' = build_deep_link(site.name, site.url, query, category)
    /\ UNCHANGED <<query, table, requestVars, argVars>>

NextLink == ToSlug \/ BuildDeepLink

SpecLink == InitLink /\ [][NextLink]_vars

----------------------------------------------------------------------------
(* Specification of one submitted request, in either script *)

RequestQueries == { << >>, <<" ">>, <<"a">>, <<"a", "a">>, <<"+">> }

RequestKeywordLists == { << <<"a">> >>, << <<"B">> >> }

RequestTables ==
    TablesOf("list", RequestKeywordLists) \cup TablesOf("dict", RequestKeywordLists)

\* websites.json: no category at all, or the sites of electronics.
WebsiteMaps ==
    UNION { [ D -> SiteLists ] : D \in { {}, { S_electronics } } }

\* Outcome of reading the two data files.
LoadStatuses == { "ok", "missing", "invalid_json", "unreadable" }

ApiKeys == { None, << >>, <<" ">>, <<"s", "k">> }

Environments == [ OPENAI_API_KEY : ApiKeys, lc_available : BOOLEAN ]

\* Replies of the model within a request.
RequestBatchReplies ==
    { [ kind |-> "raise" ],
      [ kind |-> "text", json |-> [ type |-> "error" ] ],
      [ kind |-> "text", json |-> [ type |-> "dict", items |-> EmptyDict ] ],
      [ kind |-> "text", json |->
          [ type |-> "dict",
            items |-> [ k \in { N_Amazon_India } |->
                          [ type |-> "str", s |-> <<"F", "a", "s", "t", ".">> ] ] ] ] }

RequestSiteReplies ==
    { [ kind |-> "raise" ],
      [ kind |-> "message", content |-> None ],
      [ kind |-> "message", content |-> <<".">> ],
      [ kind |-> "message", content |-> <<"g", ".">> ] }

InitRequest ==
    /\ pc = "submit"
    /\ fn = "-"
    /\ app \in { "app", "streamlit" }
    /\ query \in RequestQueries
    /\ \E status \in LoadStatuses :
        IF status = "ok"
        THEN /\ table \in RequestTables
             /\ \E w \in WebsiteMaps : files = [ status |-> status, websites |-> w ]
        ELSE /\ table = << >>
             /\ files = [ status |-> status, websites |-> EmptyDict ]
    /\ env \in Environments
    /\ category = None /\ sites = << >> /\ site = None /\ reply = None
    /\ llm = None /\ llmCalls = 0 /\ reasons = None
    /\ ui = << >> /\ exc = None /\ ret = None

fixedVars == <<fn, app, query, table, files, env, site, ret>>

Entries == SelectSeq(ui, LAMBDA e : e.kind = "entry")

\* if not query.strip(): st.warning(...); st.stop()
CheckQuery ==
    /\ pc = "submit"
    /\ IF Strip(query) = << >>
       THEN /\ ui' = Append(ui, Message("warning", "empty_query"))
            /\ pc' = "stopped"
       ELSE /\ ui' = ui
            /\ pc' = "load"
    /\ UNCHANGED <<fixedVars, category, sites, reply, llm, llmCalls, reasons, exc>>

\* src/app.py: FileNotFoundError and json.JSONDecodeError are caught; any
\* other error of open() or read() leaves the handler.
AppLoadData ==
    /\ pc = "load" /\ app = "app"
    /\ CASE files.status = "ok" ->
              /\ pc' = "detect" /\ ui' = ui /\ exc' = exc
         [] files.status \in { "missing", "invalid_json" } ->
              /\ ui' = Append(ui, Message("error", "data_load"))
              /\ pc' = "stopped" /\ exc' = exc
         [] OTHER ->
              /\ exc' = << "OSError" >>
              /\ pc' = "crashed" /\ ui' = ui
    /\ UNCHANGED <<fixedVars, category, sites, reply, llm, llmCalls, reasons>>

\* src/streamlit-app/app.py: except Exception around load_datasets().
StreamlitLoadData ==
    /\ pc = "load" /\ app = "streamlit"
    /\ IF files.status = "ok"
       THEN /\ pc' = "detect" /\ ui' = ui
       ELSE /\ ui' = Append(ui, Message("error", "data_load"))
            /\ pc' = "stopped"
    /\ UNCHANGED <<fixedVars, category, sites, reply, llm, llmCalls, reasons, exc>>

\* The detected category, then `if not category: st.info(...); st.stop()`.
DetectedBy(a) ==
    IF a = "app" THEN detect_category(query, table)
    ELSE extract_category(query, table)

Detect ==
    /\ pc = "detect"
    /\ LET c == DetectedBy(app)
       IN  IF c = AttributeError
           THEN /\ exc' = AttributeError
                /\ pc' = "crashed"
                /\ UNCHANGED <<category, ui>>
           ELSE /\ category' = c
                /\ exc' = exc
                /\ IF c = None
                   THEN /\ ui' = Append(ui, Message("info", "no_category"))
                        /\ pc' = "stopped"
                   ELSE /\ ui' = ui
                        /\ pc' = "sites"
    /\ UNCHANGED <<fixedVars, sites, reply, llm, llmCalls, reasons>>

\* sites = websites.get(category, []); if not sites: st.info(...); st.stop()
LookupSites ==
    /\ pc = "sites"
    /\ sites' = SitesOf(files.websites, category)
    /\ IF sites' = << >>
       THEN /\ ui' = Append(ui, Message("info", "no_sites"))
            /\ pc' = "stopped"
       ELSE /\ ui' = IF app = "streamlit"
                     THEN Append(ui, Message("subheader", "suggestion"))
                     ELSE ui
            /\ pc' = "llm"
    /\ UNCHANGED <<fixedVars, category, reply, llm, llmCalls, reasons, exc>>

\* llm = ensure_llm() / llm = make_llm()
MakeLlm ==
    /\ pc = "llm"
    /\ \E constructed \in BOOLEAN :
        llm' = IF app = "app" THEN ensure_llm(env, constructed)
               ELSE make_llm(env, constructed)
    /\ pc' = IF app = "app" THEN "reasons" ELSE "loop"
    /\ UNCHANGED <<fixedVars, category, sites, reply, llmCalls, reasons, ui, exc>>

\* src/app.py lines 266-271: no client, fallback reasons.
AppFallbackReasons ==
    /\ pc = "reasons" /\ llm = None
    /\ ui' = Append(ui, Message("warning", "fallback_reasons"))
    /\ reasons' = build_fallback_reasons(sites, category, query)
    /\ pc' = "render"
    /\ UNCHANGED <<fixedVars, category, sites, reply, llm, llmCalls, exc>>

\* src/app.py line 273: one batch call of the model.
AppModelReasons ==
    /\ pc = "reasons" /\ llm # None
    /\ \E r \in RequestBatchReplies :
        /\ reply' = r
        /\ reasons' = generate_reasons_for_websites(r, query, category, sites)
    /\ llmCalls' = llmCalls + 1
    /\ pc' = "render"
    /\ UNCHANGED <<fixedVars, category, sites, llm, ui, exc>>

\* src/app.py lines 276-286.
AppRender ==
    /\ pc = "render"
    /\ ui' = ui \o << Message("subheader", "suggestion") >>
                \o RenderedLinks(sites, reasons)
                \o << Message("caption", "tip") >>
    /\ pc' = "done"
    /\ UNCHANGED <<fixedVars, category, sites, reply, llm, llmCalls, reasons, exc>>

\* src/streamlit-app/app.py lines 202-210, one site with a client: the
\* deep link, one call of the model, the two elements rendered.
StreamlitSiteWithModel ==
    /\ pc = "loop" /\ Len(Entries) < Len(sites) /\ llm # None
    /\ LET s == sites[Len(Entries) + 1]
           deep_url == build_deep_link(s.name, s.url, query, category)
       IN  \E r \in RequestSiteReplies :
            /\ reply' = r
            /\ ui' = Append(ui, [ kind |-> "entry", name |-> s.name, url |-> deep_url,
                                  reason |-> reason_with_llm(r, query, category,
                                                             s.name, deep_url) ])
    /\ llmCalls' = llmCalls + 1
    /\ UNCHANGED <<fixedVars, pc, category, sites, llm, reasons, exc>>

\* The same lines without a client.
StreamlitSiteWithoutModel ==
    /\ pc = "loop" /\ Len(Entries) < Len(sites) /\ llm = None
    /\ LET s == sites[Len(Entries) + 1]
           deep_url == build_deep_link(s.name, s.url, query, category)
       IN  ui' = Append(ui, [ kind |-> "entry", name |-> s.name, url |-> deep_url,
                              reason |-> deterministic_reason(s.name, category, query) ])
    /\ UNCHANGED <<fixedVars, pc, category, sites, reply, llm, llmCalls, reasons, exc>>

\* src/streamlit-app/app.py lines 212-213.
StreamlitFinish ==
    /\ pc = "loop" /\ Len(Entries) = Len(sites)
    /\ ui' = Append(ui, Message("caption", "tip"))
    /\ pc' = "done"
    /\ UNCHANGED <<fixedVars, category, sites, reply, llm, llmCalls, reasons, exc>>

NextRequest ==
    \/ CheckQuery
    \/ AppLoadData
    \/ StreamlitLoadData
    \/ Detect
    \/ LookupSites
    \/ MakeLlm
    \/ AppFallbackReasons
    \/ AppModelReasons
    \/ AppRender
    \/ StreamlitSiteWithModel
    \/ StreamlitSiteWithoutModel
    \/ StreamlitFinish

SpecRequest == InitRequest /\ [][NextRequest]_vars

----------------------------------------------------------------------------
(* Claims about category detection *)

\* The table is in the schema the function applied reads.
NativeTable ==
    \/ fn = "detect_category" /\ IsFlat(table)
    \/ fn = "extract_category" /\ IsObject(table)

\* Count of the keywords of category i matched in the query, under the
\* matching rule of the function applied.
MatchCount(i) ==
    IF fn = "detect_category"
    THEN SubstringScore(Lower(query), table[i].keywords)
    ELSE WordScore(normalize_text(query), table[i].keywords)

\* The counts of all categories, in table order.
MatchCounts == [ i \in 1..Len(table) |-> MatchCount(i) ]

\* The highest of the counts c, 0 for an empty table.
Highest(c) ==
    IF c = << >> THEN 0
    ELSE CHOOSE m \in { c[i] : i \in 1..Len(c) } : \A i \in 1..Len(c) : c[i] <= m

\* The first position of c that holds m.
FirstAt(c, m) ==
    CHOOSE i \in 1..Len(c) : c[i] = m /\ \A j \in 1..(i - 1) : c[j] # m

\* C1: detection returns the category with the highest count of matched
\* keywords, the first such category in the table's iteration order on a
\* tie, and none exactly when the highest count is zero (empty table
\* included).
C1_HighestCountFirstSeen ==
    (pc = "returned" /\ NativeTable) =>
        LET c == MatchCounts
            m == Highest(c)
        IN  /\ (ret = None) <=> (m = 0)
            /\ m > 0 => ret = table[FirstAt(c, m)].name

\* A tie between two categories with a positive count, settled for the first.
C1_Witness ==
    /\ pc = "returned" /\ NativeTable
    /\ Len(table) = 2
    /\ MatchCount(1) = MatchCount(2) /\ MatchCount(1) > 0
    /\ ret = table[1].name

\* The query contains keyword kw: kw occurs in it as a substring, letter
\* case aside.
QueryContains(kw) == Contains(Lower(kw), Lower(query))

HasKeywordIn(i) ==
    \E k \in 1..Len(table[i].keywords) : QueryContains(table[i].keywords[k])

\* C2 as stated: whenever the query contains a keyword of exactly one
\* category, both detectors return that category, whatever surrounds the
\* keyword.
C2_AnyOccurrence ==
    (pc = "returned" /\ NativeTable) =>
        \A i \in 1..Len(table) :
            ( /\ HasKeywordIn(i)
              /\ \A j \in 1..Len(table) : j # i => ~HasKeywordIn(j) )
            => ret = table[i].name

\* C2 amended: detect_category returns the category when the lowercased
\* query contains a keyword of exactly one category as a substring;
\* extract_category returns it when a keyword of exactly one category
\* occurs in the normalized query with a word boundary on both sides.
C2_MatchOfExactlyOne ==
    (pc = "returned" /\ NativeTable) =>
        LET c == MatchCounts
        IN  \A i \in 1..Len(table) :
                ( /\ c[i] > 0
                  /\ \A j \in 1..Len(table) : j # i => c[j] = 0 )
                => ret = table[i].name

\* extract_category returned the second category for a query in which
\* only its keyword stands as a word, the first category's keyword being
\* present inside a longer word only.
C2_Witness ==
    /\ pc = "returned" /\ fn = "extract_category" /\ IsObject(table)
    /\ Len(table) = 2
    /\ HasKeywordIn(1) /\ MatchCount(1) = 0
    /\ MatchCount(2) > 0
    /\ ret = table[2].name

----------------------------------------------------------------------------
(* Claims about reason generation *)

EndsWith(s, suffix) == MatchAt(suffix, s, Len(s) - Len(suffix) + 1)

\* The batch reply is malformed for the site list: it does not parse, is
\* not an object, has a key that is no listed site name, or has a value
\* whose text is empty.
MalformedBatch(j, l) ==
    \/ j.type # "dict"
    \/ \E k \in DOMAIN j.items : k \notin SiteNames(l)
    \/ \E k \in DOMAIN j.items : PyStr(j.items[k]) = << >>

\* C3 as stated: a malformed batch reply makes generate_reasons_for_websites
\* return exactly the fallback map of the whole site list, and the map
\* returned never lacks a listed site.
C3_BatchAtomic ==
    (pc = "returned" /\ fn = "generate_reasons_for_websites" /\ reply.kind = "text") =>
        /\ MalformedBatch(reply.json, sites) =>
               ret = build_fallback_reasons(sites, category, query)
        /\ DOMAIN ret = SiteNames(sites)

\* C4: when the model call raises, generate_reasons_for_websites returns
\* what build_fallback_reasons returns for the same inputs, and
\* reason_with_llm returns what deterministic_reason returns.
C4_FaultFallsBack ==
    (pc = "returned" /\ reply.kind = "raise") =>
        /\ fn = "generate_reasons_for_websites" =>
               ret = build_fallback_reasons(sites, category, query)
        /\ fn = "reason_with_llm" =>
               ret = deterministic_reason(site.name, category, query)

\* The batch call raised for a list of two sites and both got a reason.
C4_Witness ==
    /\ pc = "returned" /\ fn = "generate_reasons_for_websites"
    /\ reply.kind = "raise"
    /\ Len(sites) = 2
    /\ DOMAIN ret = SiteNames(sites)

\* The first two declared strengths of site record w.
FirstTwo(w) == { w.strengths[k] : k \in 1..(IF Len(w.strengths) < 2 THEN Len(w.strengths) ELSE 2) }

\* The sentence names the category and the site's first two strengths.
BuiltFromStrengths(r, w, cat) ==
    /\ Contains(cat, r)
    /\ \A s \in FirstTwo(w) : Contains(s, r)

\* A digit follows marker m in text t, whitespace between them or not.
DigitsPrecededBy(m, t) ==
    \E p \in 1..(Len(t) + 1) :
        /\ MatchAt(m, t, p)
        /\ \E d \in (p + Len(m))..Len(t) :
            /\ t[d] \in Digits
            /\ \A k \in (p + Len(m))..(d - 1) : IsSpace(t[k])

\* The query holds a budget token in the words of the claim: digits
\* preceded by a currency marker (the rupee sign, rs, rupees) or by `under`.
HasBudgetToken(q) ==
    \E m \in BudgetMarkers \cup { << RupeeSign >> } : DigitsPrecededBy(m, Lower(q))

\* The query holds a budget token of the pattern as the source stores it.
HasSourceBudgetToken(q) ==
    \E m \in BudgetMarkers : DigitsPrecededBy(m, Lower(q))

C10_NonEmptyReasons ==
    pc = "returned" =>
        /\ fn = "generate_reasons_for_websites" =>
               \A i \in 1..Len(sites) :
                   /\ sites[i].name \in DOMAIN ret
                   /\ ReasonShown(ret, sites[i].name) # << >>
        /\ fn = "reason_with_llm" =>
               /\ ret # << >>
               /\ Strip(SubSeq(ret, 1, Len(ret) - 1)) # << >>

----------------------------------------------------------------------------
(* Claims about slugs and deep links *)

\* C6: to_slug returns a non-empty string of lowercase letters, digits
\* and hyphens that neither starts nor ends with a hyphen and has no two
\* adjacent hyphens.
C6_SlugShape ==
    (pc = "returned" /\ fn = "to_slug") =>
        /\ ret # << >>
        /\ \A i \in 1..Len(ret) : ret[i] \in LowerLetters \cup Digits \cup { "-" }
        /\ ret[1] # "-"
        /\ ret[Len(ret)] # "-"
        /\ \A i \in 1..(Len(ret) - 1) : ~(ret[i] = "-" /\ ret[i + 1] = "-")

\* A query that starts with a hyphen and has an underscore inside.
C6_Witness ==
    /\ pc = "returned" /\ fn = "to_slug"
    /\ query = <<"-", "_", "B">>
    /\ ret = <<"b">>

KnownRetailerHosts ==
    { H_amazon, H_flipkart, H_croma, H_reliancedigital, H_myntra, H_ajio,
      H_pepperfry, H_ikea, H_urbanladder }

\* The host is a known retailer's domain or a subdomain of it.
IsKnownRetailerHost(h) ==
    \E d \in KnownRetailerHosts : h = d \/ EndsWith(h, <<".">> \o d)

\* C7 as stated: when the host of the base URL is not a known retailer
\* host, build_deep_link returns the base URL unchanged.
C7_UnknownHostUnchanged ==
    (pc = "returned" /\ fn = "build_deep_link") =>
        (~IsKnownRetailerHost(Lower(netloc(site.url))) => ret = site.url)

----------------------------------------------------------------------------
(* Claims about a submitted request *)

Ended == pc \in { "stopped", "done", "crashed" }

\* The four outcomes that end a request without a list of sites.
StopMessages ==
    { Message("warning", "empty_query"), Message("error", "data_load"),
      Message("info", "no_category"), Message("info", "no_sites") }

StopsShown == { i \in 1..Len(ui) : ui[i] \in StopMessages }

\* C8 as stated: a request ends with no exception out of the handler and
\* in exactly one outcome: one of the four messages and no site entry, or
\* none of them and one entry per site of the category.
C8_OneOutcome ==
    Ended =>
        /\ exc = None
        /\ \/ Cardinality(StopsShown) = 1 /\ Entries = << >>
           \/ /\ StopsShown = {}
              /\ Len(Entries) = Len(sites)
              /\ \A i \in 1..Len(sites) : Entries[i].name = sites[i].name

\* OPENAI_API_KEY is set to a non-empty value and the client library is there.
CredentialConfigured ==
    /\ env.OPENAI_API_KEY # None
    /\ env.OPENAI_API_KEY # << >>
    /\ env.lc_available

\* The reason the script's deterministic fallback gives the i-th site.
FallbackReasonShown(i) ==
    IF app = "app"
    THEN Strip(build_fallback_reasons(sites, category, query)[sites[i].name])
    ELSE deterministic_reason(sites[i].name, category, query)

\* C9: the model is called only after a category was detected and a
\* non-empty site list found, and only with a credential configured;
\* without one a finished request made no call, raised nothing, and shows
\* the deterministic fallback reason for every site.
C9_NoCredentialNoCall ==
    /\ llmCalls > 0 =>
          /\ category # None
          /\ sites # << >>
          /\ CredentialConfigured
    /\ (pc = "done" /\ ~CredentialConfigured) =>
          /\ llmCalls = 0
          /\ exc = None
          /\ Len(Entries) = Len(sites)
          /\ \A i \in 1..Len(sites) : Entries[i].reason = FallbackReasonShown(i)

\* src/streamlit-app/app.py finished a request for two sites with
\* OPENAI_API_KEY set to the empty string and the library present.
C9_Witness ==
    /\ pc = "done" /\ app = "streamlit"
    /\ env.OPENAI_API_KEY = << >> /\ env.lc_available
    /\ Len(Entries) = 2

====
